---- MODULE Spec2Model ----
(***************************************************************************)
(* Model of falcon's command line front end (lib/src/cli.rs): the          *)
(* snapshot pipeline, the serial console proxy with its terminal guard,    *)
(* reboot, the hyperstop teardown, the hyperstart restart and the Runner   *)
(* wrappers, each reached through run's dispatch.                          *)
(* External collaborators (zfs, bhyvectl, the kernel's tty and signal      *)
(* calls, the websocket peer) answer nondeterministically.                 *)
(***************************************************************************)
EXTENDS Integers, Sequences, FiniteSets, TLC

\* ------------------------------------------------------------------ bounds
NumNodes == 2          \* nodes of the Deployment that are modelled
MaxEvents == 3         \* iterations of the console proxy's select loop
MaxInvocations == 2    \* successive invocations of the command line tool

\* ------------------------------------------------------------ deployment
\* examples/softnpu/src/main.rs: Runner::new("duo") and its four nodes.
DeploymentName == "duo"

NodeNames == <<"router", "violin", "piano", "cello">>

Deployment ==
    [name  |-> DeploymentName,
     nodes |-> [i \in 1..NumNodes |-> [name |-> NodeNames[i], image |-> "helios-1.1"]]]

DeclaredNames == [i \in 1..NumNodes |-> Deployment.nodes[i].name]

\* Names a user may type; "ghost" is in no deployment.
TypedNames == {DeclaredNames[i] : i \in 1..NumNodes} \cup {"ghost"}

SnapshotNames == {"img1", "img2"}

\* ---------------------------------------------------------------- results
NoResult == [kind |-> "None", err |-> "", payload |-> <<>>]

Ok == [kind |-> "Ok", err |-> "", payload |-> <<>>]

Err(e, p) == [kind |-> "Err", err |-> e, payload |-> p]

Panic == [kind |-> "Panic", err |-> "", payload |-> <<>>]

\* Option<String>: <<>> is None, <<s>> is Some(s).
None == <<>>

Some(s) == <<s>>

\* ------------------------------------------------------------------ state
VARIABLES
    opts,        \* the parsed command line (Opts::parse)
    pc,          \* position of the running invocation
    result,      \* what run returned (or that it panicked)
    topology,    \* .falcon/topology.ron
    files,       \* .falcon/<name>.pid / .uuid / .port, per node name
    files0,      \* the state files as the invocation found them
    invocation,  \* number of the running invocation
    prev,        \* command line and result of the previous invocation
    zfsLog,      \* zfs commands run by this invocation, with their outcome
    termios,     \* the terminal's current mode
    termios0,    \* the terminal's mode before the session
    guard,       \* RawTermiosGuard: <<>> or <<saved mode>>
    tcLog,       \* tcsetattr calls made by this invocation
    ret,         \* serial's return value, pending the drop of its locals
    ev,          \* what select! yielded
    events,      \* iterations of the select loop so far
    wsLog,       \* frames handed to ws.send, with the outcome
    stdoutBuf,   \* bytes written to standard output
    flushed,     \* how many of them have been flushed
    idx,         \* run's position in r.deployment.nodes (--all)
    cur,         \* hyperstop's name argument
    kills,       \* libc::kill calls, each with the outcome of the remove_file after it
    destroys,    \* bhyvectl --destroy invocations
    warns,       \* warn! records
    stopLog,     \* names hyperstop was invoked for
    reads,       \* state files this invocation tried to read
    rpcLog,      \* calls made to a hypervisor backend through the client
    opResult,    \* what the Runner operation (or info) behind the command returned
    launches,    \* launch_vm calls of this invocation
    startLog,    \* names hyperstart was invoked for
    running,     \* backend processes alive on the host
    nextPid      \* the process id the next spawned backend gets

vars == <<opts, pc, result, topology, files, files0, invocation, prev, zfsLog,
          termios, termios0, guard, tcLog, ret, ev, events, wsLog, stdoutBuf,
          flushed, idx, cur, kills, destroys, warns, stopLog, reads, rpcLog, opResult,
          launches, startLog, running, nextPid>>

snapshotVars == <<zfsLog>>

serialVars == <<termios, guard, tcLog, ret, ev, events, wsLog, stdoutBuf, flushed>>

hyperVars == <<idx, cur, kills, destroys, warns, stopLog>>

diskVars == <<topology, files>>

procVars == <<opts, files0, invocation, prev, termios0>>

logVars == <<reads, rpcLog, opResult>>

startVars == <<launches, startLog, running, nextPid>>

\* ------------------------------------------------------------ conversions
\* String::from_utf8: the bytes are accepted unchanged when they are
\* well-formed UTF-8 and rejected otherwise.
IsCont(b) == b >= 128 /\ b <= 191

RECURSIVE IsUtf8(_)
IsUtf8(b) ==
    IF b = <<>> THEN TRUE
    ELSE LET h == Head(b)
             n == Len(b)
         IN  IF h < 128 THEN IsUtf8(Tail(b))
             ELSE IF h >= 194 /\ h <= 223
                  THEN n >= 2 /\ IsCont(b[2]) /\ IsUtf8(SubSeq(b, 3, n))
             ELSE IF h >= 224 /\ h <= 239
                  THEN /\ n >= 3 /\ IsCont(b[2]) /\ IsCont(b[3])
                       /\ (h = 224 => b[2] >= 160)
                       /\ (h = 237 => b[2] <= 159)
                       /\ IsUtf8(SubSeq(b, 4, n))
             ELSE IF h >= 240 /\ h <= 244
                  THEN /\ n >= 4 /\ IsCont(b[2]) /\ IsCont(b[3]) /\ IsCont(b[4])
                       /\ (h = 240 => b[2] >= 144)
                       /\ (h = 244 => b[2] <= 143)
                       /\ IsUtf8(SubSeq(b, 5, n))
             ELSE FALSE

from_utf8(b) == IF IsUtf8(b) THEN [ok |-> TRUE, s |-> b] ELSE [ok |-> FALSE, s |-> <<>>]

\* --------------------------------------------------------------- topology
TopologyAbsent == [state |-> "absent", d |-> Deployment]

TopologyCorrupt == [state |-> "corrupt", d |-> Deployment]

TopologyOk == [state |-> "ok", d |-> Deployment]

\* A lookup that falls back to the last node when no name matches.
find_node_OrFirst(d, name) ==
    LET hits == {i \in 1..Len(d.nodes) : d.nodes[i].name = name}
    IN  IF hits = {} THEN Len(d.nodes) ELSE CHOOSE i \in hits : \A j \in hits : j <= i

\* The loop over d.nodes keeps the last node whose name matches; 0 is None.
find_node(d, name) ==
    LET hits == {i \in 1..Len(d.nodes) : d.nodes[i].name = name}
    IN  IF hits = {} THEN 0 ELSE CHOOSE i \in hits : \A j \in hits : j <= i

\* ------------------------------------------------------- snapshot pipeline
\* A dataset argument: the volume path and the snapshot tag ("" for none).
source(d, n) == <<"rpool", "falcon", "topo", d.name, n.name>>

source_snapshot(d, n) == [vol |-> source(d, n), tag |-> "base"]

dest(cmd) == <<"rpool", "falcon", "img", cmd.snapshot_name>>

dest_snapshot(d, n, cmd) == [vol |-> source(d, n), tag |-> "base"]

Untagged(v) == [vol |-> v, tag |-> ""]

\* The four zfs invocations, in program order.
ZfsArgs(k, d, n, cmd) ==
    CASE k = 1 -> [op |-> "snapshot", args |-> <<source_snapshot(d, n)>>]
      [] k = 2 -> [op |-> "clone", args |-> <<source_snapshot(d, n), Untagged(dest(cmd))>>]
      [] k = 3 -> [op |-> "promote", args |-> <<Untagged(dest(cmd))>>]
      [] k = 4 -> [op |-> "snapshot", args |-> <<dest_snapshot(d, n, cmd)>>]

\* Diagnostic output a failing command may leave on stderr: plain text,
\* text with a two-byte character, and bytes that are not UTF-8.
StderrBytes == {<<101>>, <<195, 169>>, <<255, 101>>}

\* Command::output(): the process could not be run, or ran to an exit status.
CommandOutcomes ==
    {[spawned |-> FALSE, success |-> FALSE, stderr |-> <<>>],
     [spawned |-> TRUE, success |-> TRUE, stderr |-> <<>>]}
    \cup {[spawned |-> TRUE, success |-> FALSE, stderr |-> b] : b \in StderrBytes}

\* What one pipeline step makes of its command's outcome: Ok is "go on".
StepResult(out) ==
    IF ~out.spawned THEN Err("Io", <<>>)
    ELSE IF out.success THEN Ok
    ELSE IF from_utf8(out.stderr).ok THEN Err("Zfs", from_utf8(out.stderr).s)
    ELSE Err("FromUtf8", <<>>)

\* A read of a state file, and a call made through the propolis client.
Read(name, kind) == [name |-> name, kind |-> kind]

Rpc(call, port, ok) == [call |-> call, port |-> port, ok |-> ok]

RunSnapshot ==
    /\ pc = "run"
    /\ opts.subcmd = "snapshot"
    /\ pc' = "snapshot"
    /\ UNCHANGED <<result, diskVars, procVars, snapshotVars, serialVars, hyperVars, logVars,
                   startVars>>

\* Read the topology and look the node up.
SnapshotFindNode ==
    /\ pc = "snapshot"
    /\ IF topology.state = "absent"
       THEN pc' = "done" /\ result' = Err("Io", <<>>)
       ELSE IF topology.state = "corrupt"
       THEN pc' = "done" /\ result' = Err("Ron", <<>>)
       ELSE IF find_node(topology.d, opts.vm_name[1]) = 0
       THEN pc' = "done" /\ result' = Err("NotFound", opts.vm_name)
       ELSE pc' = "zfs1" /\ result' = result
    /\ reads' = Append(reads, Read("", "topology"))
    /\ UNCHANGED <<diskVars, procVars, snapshotVars, serialVars, hyperVars, rpcLog, opResult,
                   startVars>>

ZfsPc(k) == CASE k = 1 -> "zfs1" [] k = 2 -> "zfs2" [] k = 3 -> "zfs3" [] k = 4 -> "zfs4"
              [] OTHER -> "done"

\* One step of the pipeline: run the command, check its status.
ZfsCommand(k) ==
    /\ pc = ZfsPc(k)
    /\ LET d == topology.d
           n == d.nodes[find_node(d, opts.vm_name[1])]
       IN  \E out \in CommandOutcomes :
             /\ zfsLog' = Append(zfsLog, [cmd |-> ZfsArgs(k, d, n, opts), out |-> out])
             /\ IF StepResult(out).kind = "Ok"
                THEN /\ pc' = ZfsPc(k + 1)
                     /\ result' = IF k = 4 THEN Ok ELSE result
                ELSE /\ pc' = "done"
                     /\ result' = StepResult(out)
    /\ UNCHANGED <<diskVars, procVars, serialVars, hyperVars, logVars, startVars>>

\* ------------------------------------------------------------ state files
Absent == [present |-> FALSE, text |-> <<>>]

File(t) == [present |-> TRUE, text |-> t]

Whitespace == {" ", "\n", "\t", "\r"}

\* str::trim_end
RECURSIVE trim_end(_)
trim_end(s) ==
    IF s /= <<>> /\ s[Len(s)] \in Whitespace THEN trim_end(SubSeq(s, 1, Len(s) - 1)) ELSE s

DigitValue(c) ==
    CASE c = "0" -> 0 [] c = "1" -> 1 [] c = "2" -> 2 [] c = "3" -> 3 [] c = "4" -> 4
      [] c = "5" -> 5 [] c = "6" -> 6 [] c = "7" -> 7 [] c = "8" -> 8 [] c = "9" -> 9
      [] OTHER -> -1

\* Accumulate decimal digits; -1 on a non-digit or on a value beyond max.
RECURSIVE ParseDigits(_, _, _)
ParseDigits(s, acc, max) ==
    IF s = <<>> THEN acc
    ELSE IF DigitValue(Head(s)) < 0 THEN -1
    ELSE IF acc * 10 + DigitValue(Head(s)) > max THEN -1
    ELSE ParseDigits(Tail(s), acc * 10 + DigitValue(Head(s)), max)

\* <unsigned>::from_str: an optional "+", then one or more digits, in range.
parse_unsigned(s, max) ==
    LET t == IF s /= <<>> /\ Head(s) = "+" THEN Tail(s) ELSE s
        v == IF t = <<>> THEN -1 ELSE ParseDigits(t, 0, max)
    IN  [ok |-> v >= 0, v |-> v]

U16Max == 65535

I32Max == 2147483647

parse_u16(s) == parse_unsigned(s, U16Max)

\* u32::MAX as a decimal numeral: a u32 is kept as its canonical numeral.
U32MaxText == <<"4", "2", "9", "4", "9", "6", "7", "2", "9", "5">>

RECURSIVE StripZeros(_)
StripZeros(s) == IF Len(s) > 1 /\ Head(s) = "0" THEN StripZeros(Tail(s)) ELSE s

\* a <= b for canonical numerals of the same length
RECURSIVE LeDigits(_, _)
LeDigits(a, b) ==
    IF a = <<>> THEN TRUE
    ELSE IF DigitValue(Head(a)) /= DigitValue(Head(b))
    THEN DigitValue(Head(a)) < DigitValue(Head(b))
    ELSE LeDigits(Tail(a), Tail(b))

LeNumeral(a, b) == Len(a) < Len(b) \/ (Len(a) = Len(b) /\ LeDigits(a, b))

\* u32::from_str: an optional "+", then one or more digits, at most u32::MAX.
parse_u32(s) ==
    LET t == IF s /= <<>> /\ Head(s) = "+" THEN Tail(s) ELSE s
        ok == /\ t /= <<>>
              /\ \A i \in 1..Len(t) : DigitValue(t[i]) >= 0
              /\ LeNumeral(StripZeros(t), U32MaxText)
    IN  [ok |-> ok, v |-> IF ok THEN StripZeros(t) ELSE <<>>]

\* i32::from_str: an optional sign, then digits; the magnitude is in range.
parse_i32(s) ==
    IF s /= <<>> /\ Head(s) = "-"
    THEN LET v == IF Tail(s) = <<>> THEN -1 ELSE ParseDigits(Tail(s), 0, I32Max + 1)
         IN  [ok |-> v >= 0, v |-> 0 - v]
    ELSE parse_unsigned(s, I32Max)

\* ----------------------------------------------------------- terminal mode
\* A termios value as the set of the mode flags that are on.
RawOff == {"ECHO", "ICANON", "ISIG", "IEXTEN", "OPOST"}

cfmakeraw(t) == (t \ RawOff) \cup {"CS8"}

IsRaw(t) == t \cap RawOff = {}

TerminalModes ==
    {{"ECHO", "ICANON", "ISIG", "IEXTEN", "OPOST", "CS8"},
     {"ECHO", "ICANON", "ISIG", "OPOST", "CLOCAL"},
     {"CS8", "CLOCAL"}}

TcCall(act, mode, ok) == [act |-> act, mode |-> mode, ok |-> ok]

\* ------------------------------------------------------------ console proxy
QuitByte == 17

StdinBytes == {QuitByte, 97}

WsPayloads == {<<104>>, <<QuitByte, 105>>}

Event(src, kind, data) == [src |-> src, kind |-> kind, data |-> data]

NoEvent == Event("", "", <<>>)

StdinEvents == {Event("stdin", "Ok", <<b>>) : b \in StdinBytes} \cup {Event("stdin", "Err", <<>>)}

WsEvents ==
    {Event("ws", "Binary", p) : p \in WsPayloads}
    \cup {Event("ws", k, <<104>>) : k \in {"Text", "Ping", "Pong"}}
    \cup {Event("ws", k, <<>>) : k \in {"Close", "Err", "None"}}

\* The port the client was built with: the node's parsed port file.
ClientPort(name) == parse_u16(trim_end(files[name].port.text)).v

\* serial switching the terminal to raw mode before connecting.
RunSerial_GuardFirst ==
    /\ pc = "run"
    /\ opts.subcmd = "serial"
    /\ pc' = "stdio_guard"
    /\ UNCHANGED <<result, diskVars, procVars, snapshotVars, serialVars, hyperVars, logVars,
                   startVars>>

RunSerial ==
    /\ pc = "run"
    /\ opts.subcmd = "serial"
    /\ pc' = "console"
    /\ UNCHANGED <<result, diskVars, procVars, snapshotVars, serialVars, hyperVars, logVars,
                   startVars>>

\* console: read and parse the node's port file, build the client.
console ==
    /\ pc = "console"
    /\ LET f == files[opts.vm_name[1]].port
       IN  IF ~f.present
           THEN pc' = "done" /\ result' = Err("Io", <<>>)
           ELSE IF ~parse_u16(trim_end(f.text)).ok
           THEN pc' = "done" /\ result' = Err("ParseInt", <<>>)
           ELSE pc' = "get_uuid" /\ result' = result
    /\ reads' = Append(reads, Read(opts.vm_name[1], "port"))
    /\ UNCHANGED <<diskVars, procVars, snapshotVars, serialVars, hyperVars, rpcLog, opResult,
                   startVars>>

\* serial: client.instance_get_uuid(&name)
SerialGetUuid ==
    /\ pc = "get_uuid"
    /\ \E ok \in BOOLEAN :
         /\ rpcLog' = Append(rpcLog, Rpc("instance_get_uuid", ClientPort(opts.vm_name[1]), ok))
         /\ IF ok THEN pc' = "connect" /\ result' = result
            ELSE pc' = "done" /\ result' = Err("Anyhow", <<"failed to get instance UUID">>)
    /\ UNCHANGED <<diskVars, procVars, snapshotVars, serialVars, hyperVars, reads, opResult,
                   startVars>>

\* serial: tokio_tungstenite::connect_async(path)
SerialConnect ==
    /\ pc = "connect"
    /\ \E ok \in BOOLEAN :
         /\ rpcLog' = Append(rpcLog, Rpc("connect_async", ClientPort(opts.vm_name[1]), ok))
         /\ IF ok THEN pc' = "stdio_guard" /\ result' = result
            ELSE pc' = "done"
                 /\ result' = Err("Anyhow", <<"failed to create serial websocket stream">>)
    /\ UNCHANGED <<diskVars, procVars, snapshotVars, serialVars, hyperVars, reads, opResult,
                   startVars>>

\* RawTermiosGuard::stdio_guard, with the drop of the guard it built when
\* the switch to raw mode fails.
stdio_guard ==
    /\ pc = "stdio_guard"
    /\ \E getOk \in BOOLEAN, setOk \in BOOLEAN, restoreOk \in BOOLEAN :
         IF ~getOk
         THEN /\ setOk /\ restoreOk
              /\ pc' = "done"
              /\ result' = Err("Anyhow", <<"failed to set raw mode">>)
              /\ UNCHANGED <<termios, guard, tcLog>>
         ELSE IF setOk
         THEN /\ restoreOk
              /\ termios' = cfmakeraw(termios)
              /\ guard' = <<termios>>
              /\ tcLog' = Append(tcLog, TcCall("TCSAFLUSH", cfmakeraw(termios), TRUE))
              /\ pc' = "select"
              /\ result' = result
         ELSE /\ tcLog' = tcLog \o <<TcCall("TCSAFLUSH", cfmakeraw(termios), FALSE),
                                     TcCall("TCSADRAIN", termios, restoreOk)>>
              /\ pc' = "done"
              /\ result' = IF restoreOk THEN Err("Anyhow", <<"failed to set raw mode">>)
                           ELSE Panic
              /\ UNCHANGED <<termios, guard>>
    /\ UNCHANGED <<diskVars, procVars, snapshotVars, ret, ev, events, wsLog, stdoutBuf,
                   flushed, hyperVars, logVars, startVars>>

\* tokio::select! over stdin.read_u8() and ws.next(): either may win.
Select ==
    /\ pc = "select"
    /\ events < MaxEvents
    /\ \E e \in StdinEvents \cup WsEvents : ev' = e
    /\ events' = events + 1
    /\ pc' = "handle"
    /\ UNCHANGED <<result, diskVars, procVars, snapshotVars, termios, guard, tcLog, ret,
                   wsLog, stdoutBuf, flushed, hyperVars, logVars, startVars>>

BinaryFrame(c) == [type |-> "Binary", data |-> <<c>>]

\* The stdin arm without the Ctrl-Q test: every byte read is forwarded.
HandleStdin_ForwardAll ==
    /\ pc = "handle"
    /\ ev.src = "stdin"
    /\ IF ev.kind = "Err"
       THEN pc' = "drop" /\ ret' = Err("Io", <<>>) /\ wsLog' = wsLog
       ELSE \E ok \in BOOLEAN :
              /\ wsLog' = Append(wsLog, [frame |-> BinaryFrame(ev.data[1]), ok |-> ok])
              /\ IF ok THEN pc' = "select" /\ ret' = ret
                 ELSE pc' = "drop" /\ ret' = Err("Ws", <<>>)
    /\ UNCHANGED <<result, diskVars, procVars, snapshotVars, termios, guard, tcLog, ev,
                   events, stdoutBuf, flushed, hyperVars, logVars, startVars>>

\* The stdin arm: quit on Ctrl-Q, otherwise forward the byte.
HandleStdin ==
    /\ pc = "handle"
    /\ ev.src = "stdin"
    /\ IF ev.kind = "Err"
       THEN pc' = "drop" /\ ret' = Err("Io", <<>>) /\ wsLog' = wsLog
       ELSE IF ev.data[1] = QuitByte
       THEN pc' = "drop" /\ ret' = Ok /\ wsLog' = wsLog
       ELSE \E ok \in BOOLEAN :
              /\ wsLog' = Append(wsLog, [frame |-> BinaryFrame(ev.data[1]), ok |-> ok])
              /\ IF ok THEN pc' = "select" /\ ret' = ret
                 ELSE pc' = "drop" /\ ret' = Err("Ws", <<>>)
    /\ UNCHANGED <<result, diskVars, procVars, snapshotVars, termios, guard, tcLog, ev,
                   events, stdoutBuf, flushed, hyperVars, logVars, startVars>>

\* The websocket arm ending the session on an error of the receive side.
HandleWs_BreakOnErr ==
    /\ pc = "handle"
    /\ ev.src = "ws"
    /\ IF ev.kind = "Binary"
       THEN \E writeOk \in BOOLEAN, flushOk \in BOOLEAN, n \in 0..Len(ev.data) :
              IF ~writeOk
              THEN /\ flushOk /\ n < Len(ev.data)
                   /\ stdoutBuf' = stdoutBuf \o SubSeq(ev.data, 1, n)
                   /\ flushed' = flushed
                   /\ pc' = "drop" /\ ret' = Err("Io", <<>>)
              ELSE /\ n = Len(ev.data)
                   /\ stdoutBuf' = stdoutBuf \o ev.data
                   /\ IF flushOk
                      THEN flushed' = Len(stdoutBuf') /\ pc' = "select" /\ ret' = ret
                      ELSE flushed' = flushed /\ pc' = "drop" /\ ret' = Err("Io", <<>>)
       ELSE IF ev.kind \in {"Close", "None"}
       THEN pc' = "drop" /\ ret' = Ok /\ UNCHANGED <<stdoutBuf, flushed>>
       ELSE IF ev.kind = "Err"
       THEN pc' = "drop" /\ ret' = Err("Ws", <<>>) /\ UNCHANGED <<stdoutBuf, flushed>>
       ELSE pc' = "select" /\ ret' = ret /\ UNCHANGED <<stdoutBuf, flushed>>
    /\ UNCHANGED <<result, diskVars, procVars, snapshotVars, termios, guard, tcLog, ev,
                   events, wsLog, hyperVars, logVars, startVars>>

\* The websocket arm without the flush after write_all.
HandleWs_NoFlush ==
    /\ pc = "handle"
    /\ ev.src = "ws"
    /\ IF ev.kind = "Binary"
       THEN \E writeOk \in BOOLEAN, n \in 0..Len(ev.data) :
              IF ~writeOk
              THEN /\ n < Len(ev.data)
                   /\ stdoutBuf' = stdoutBuf \o SubSeq(ev.data, 1, n)
                   /\ flushed' = flushed
                   /\ pc' = "drop" /\ ret' = Err("Io", <<>>)
              ELSE /\ n = Len(ev.data)
                   /\ stdoutBuf' = stdoutBuf \o ev.data
                   /\ flushed' = flushed /\ pc' = "select" /\ ret' = ret
       ELSE IF ev.kind \in {"Close", "None"}
       THEN pc' = "drop" /\ ret' = Ok /\ UNCHANGED <<stdoutBuf, flushed>>
       ELSE pc' = "select" /\ ret' = ret /\ UNCHANGED <<stdoutBuf, flushed>>
    /\ UNCHANGED <<result, diskVars, procVars, snapshotVars, termios, guard, tcLog, ev,
                   events, wsLog, hyperVars, logVars, startVars>>

\* The websocket arm: print binary payloads, stop on close or end of stream.
HandleWs ==
    /\ pc = "handle"
    /\ ev.src = "ws"
    /\ IF ev.kind = "Binary"
       THEN \E writeOk \in BOOLEAN, flushOk \in BOOLEAN, n \in 0..Len(ev.data) :
              IF ~writeOk
              THEN /\ flushOk /\ n < Len(ev.data)
                   /\ stdoutBuf' = stdoutBuf \o SubSeq(ev.data, 1, n)
                   /\ flushed' = flushed
                   /\ pc' = "drop" /\ ret' = Err("Io", <<>>)
              ELSE /\ n = Len(ev.data)
                   /\ stdoutBuf' = stdoutBuf \o ev.data
                   /\ IF flushOk
                      THEN flushed' = Len(stdoutBuf') /\ pc' = "select" /\ ret' = ret
                      ELSE flushed' = flushed /\ pc' = "drop" /\ ret' = Err("Io", <<>>)
       ELSE IF ev.kind \in {"Close", "None"}
       THEN pc' = "drop" /\ ret' = Ok /\ UNCHANGED <<stdoutBuf, flushed>>
       ELSE pc' = "select" /\ ret' = ret /\ UNCHANGED <<stdoutBuf, flushed>>
    /\ UNCHANGED <<result, diskVars, procVars, snapshotVars, termios, guard, tcLog, ev,
                   events, wsLog, hyperVars, logVars, startVars>>

\* serial returns without restoring the terminal (the guard is forgotten).
DropGuard_Forgotten ==
    /\ pc = "drop"
    /\ result' = ret
    /\ guard' = <<>>
    /\ pc' = "done"
    /\ UNCHANGED <<diskVars, procVars, snapshotVars, termios, tcLog, ret, ev, events, wsLog,
                   stdoutBuf, flushed, hyperVars, logVars, startVars>>

\* serial returns: _raw_guard is dropped, then the caller sees the value.
DropGuard ==
    /\ pc = "drop"
    /\ \E ok \in BOOLEAN :
         /\ tcLog' = Append(tcLog, TcCall("TCSADRAIN", guard[1], ok))
         /\ termios' = IF ok THEN guard[1] ELSE termios
         /\ result' = IF ok THEN ret ELSE Panic
    /\ guard' = <<>>
    /\ pc' = "done"
    /\ UNCHANGED <<diskVars, procVars, snapshotVars, ret, ev, events, wsLog, stdoutBuf,
                   flushed, hyperVars, logVars, startVars>>

\* ---------------------------------------------------------------- hyperstop
DigitChar(i) == <<"0", "1", "2", "3", "4", "5", "6", "7", "8", "9">>[i + 1]

\* A file's text is a sequence of pieces: single characters, or a whole
\* canonical uuid.
UuidStrings ==
    <<"11111111-1111-1111-1111-111111111111", "22222222-2222-2222-2222-222222222222",
      "33333333-3333-3333-3333-333333333333", "44444444-4444-4444-4444-444444444444">>

\* What launch left for node i: pid 4i, port 800i and a canonical uuid.
PidText(i) == <<"4", DigitChar(i)>>

PortText(i) == <<"8", "0", "0", DigitChar(i)>>

UuidText(i) == IF i \in 1..Len(UuidStrings) THEN <<UuidStrings[i]>> ELSE <<>>

Garbage == <<"x">>

Warning(what, name) == [what |-> what, name |-> name]

DestroyOutcomes == {"NotSpawned", "Success", "Failure"}

\* Where control goes when hyperstop returns res to run: `?` on an error,
\* the next node of the --all loop, or the end of the command.
AfterHyperstop(res) ==
    IF res.kind = "Err" THEN [pc |-> "done", result |-> res, idx |-> idx, cur |-> cur]
    ELSE IF idx = 0 \/ idx >= NumNodes
    THEN [pc |-> "done", result |-> Ok, idx |-> idx, cur |-> cur]
    ELSE [pc |-> "hyperstop", result |-> result, idx |-> idx + 1,
          cur |-> DeclaredNames[idx + 1]]

RunHyperstop ==
    /\ pc = "run"
    /\ opts.subcmd = "hyperstop"
    /\ IF opts.all
       THEN pc' = "hyperstop" /\ idx' = 1 /\ cur' = DeclaredNames[1] /\ result' = result
       ELSE IF opts.vm_name = None
       THEN /\ pc' = "done"
            /\ result' = Err("Cli", <<"vm name required unless --all flag is used">>)
            /\ UNCHANGED <<idx, cur>>
       ELSE pc' = "hyperstop" /\ idx' = 0 /\ cur' = opts.vm_name[1] /\ result' = result
    /\ UNCHANGED <<diskVars, procVars, snapshotVars, serialVars, kills, destroys, warns,
                   stopLog, logVars, startVars>>

\* hyperstop removing the port and uuid files along with the pid file.
RemovePid_WholeHandle(f, name) ==
    [f EXCEPT ![name] = [pid |-> Absent, uuid |-> Absent, port |-> Absent]]

\* fs::remove_file(pidfile)
RemovePid(f, name) == [f EXCEPT ![name].pid = Absent]

\* hyperstop, first half: read the pid file, kill the process, remove the file.
HyperstopPid ==
    /\ pc = "hyperstop"
    /\ stopLog' = Append(stopLog, cur)
    /\ reads' = Append(reads, Read(cur, "pid"))
    /\ LET f == files[cur].pid
           pid == parse_i32(trim_end(f.text))
       IN  IF ~f.present
           THEN /\ warns' = Append(warns, Warning("could not get pidfile", cur))
                /\ pc' = "hyperstop_uuid"
                /\ UNCHANGED <<result, idx, cur, kills, files, running>>
           ELSE IF ~pid.ok
           THEN /\ warns' = Append(warns, Warning("could not parse pidfile", cur))
                /\ pc' = "hyperstop_uuid"
                /\ UNCHANGED <<result, idx, cur, kills, files, running>>
           ELSE \E killOk \in BOOLEAN, removeOk \in BOOLEAN :
                  /\ kills' = Append(kills, [pid |-> pid.v, ok |-> killOk, removed |-> removeOk])
                  /\ warns' = warns
                  /\ running' = IF killOk THEN {r \in running : r.pid /= pid.v} ELSE running
                  /\ IF removeOk
                     THEN /\ files' = RemovePid(files, cur)
                          /\ pc' = "hyperstop_uuid"
                          /\ UNCHANGED <<result, idx, cur>>
                     ELSE /\ files' = files
                          /\ pc' = AfterHyperstop(Err("Io", <<>>)).pc
                          /\ result' = AfterHyperstop(Err("Io", <<>>)).result
                          /\ idx' = AfterHyperstop(Err("Io", <<>>)).idx
                          /\ cur' = AfterHyperstop(Err("Io", <<>>)).cur
    /\ UNCHANGED <<topology, procVars, snapshotVars, serialVars, destroys, rpcLog, opResult,
                   launches, startLog, nextPid>>

\* hyperstop, second half: read the uuid file, destroy the bhyve vm.
HyperstopUuid ==
    /\ pc = "hyperstop_uuid"
    /\ reads' = Append(reads, Read(cur, "uuid"))
    /\ LET f == files[cur].uuid
       IN  IF ~f.present
           THEN /\ warns' = Append(warns, Warning("get propolis uuid", cur))
                /\ destroys' = destroys
           ELSE \E out \in DestroyOutcomes :
                  /\ destroys' = Append(destroys, [vm |-> f.text, out |-> out])
                  /\ warns' = IF out = "NotSpawned"
                              THEN Append(warns, Warning("delete bhyve vm", cur))
                              ELSE warns
    /\ pc' = AfterHyperstop(Ok).pc
    /\ result' = AfterHyperstop(Ok).result
    /\ idx' = AfterHyperstop(Ok).idx
    /\ cur' = AfterHyperstop(Ok).cur
    /\ UNCHANGED <<diskVars, procVars, snapshotVars, serialVars, kills, stopLog, rpcLog,
                   opResult, startVars>>

\* ------------------------------------- launch, destroy, netcreate, netdestroy
\* What a Runner operation can return to its wrapper.
RunnerOutcomes == {Ok, Err("Runner", <<>>)}

\* The wrapper prints an error of the Runner and returns nothing; run then
\* returns Ok(RunMode).
RunnerWrapper(sub) ==
    /\ pc = "run"
    /\ opts.subcmd = sub
    /\ opResult' \in RunnerOutcomes
    /\ pc' = "done"
    /\ result' = Ok
    /\ UNCHANGED <<diskVars, procVars, snapshotVars, serialVars, hyperVars, reads, rpcLog,
                   startVars>>

RunLaunch == RunnerWrapper("launch")

RunDestroy == RunnerWrapper("destroy")

RunNetcreate == RunnerWrapper("netcreate")

RunNetdestroy == RunnerWrapper("netdestroy")

\* ------------------------------------------------------------------- info
\* info writes the listing to stdout; a failed write or flush is returned.
InfoOutcomes == {Ok, Err("Anyhow", <<>>)}

RunInfo ==
    /\ pc = "run"
    /\ opts.subcmd = "info"
    /\ \E out \in InfoOutcomes :
         /\ opResult' = out
         /\ result' = out
    /\ pc' = "done"
    /\ UNCHANGED <<diskVars, procVars, snapshotVars, serialVars, hyperVars, reads, rpcLog,
                   startVars>>

\* ----------------------------------------------------------------- reboot
RunReboot ==
    /\ pc = "run"
    /\ opts.subcmd = "reboot"
    /\ pc' = "reboot"
    /\ UNCHANGED <<result, diskVars, procVars, snapshotVars, serialVars, hyperVars, logVars,
                   startVars>>

\* reboot: read the port file as a u16.
reboot ==
    /\ pc = "reboot"
    /\ LET f == files[opts.vm_name[1]].port
       IN  IF ~f.present
           THEN pc' = "done" /\ result' = Err("Io", <<>>)
           ELSE IF ~parse_u16(trim_end(f.text)).ok
           THEN pc' = "done" /\ result' = Err("ParseInt", <<>>)
           ELSE pc' = "reboot_uuid" /\ result' = result
    /\ reads' = Append(reads, Read(opts.vm_name[1], "port"))
    /\ UNCHANGED <<diskVars, procVars, snapshotVars, serialVars, hyperVars, rpcLog, opResult,
                   startVars>>

\* reboot: client.instance_get_uuid(&name)
RebootGetUuid ==
    /\ pc = "reboot_uuid"
    /\ \E ok \in BOOLEAN :
         /\ rpcLog' = Append(rpcLog, Rpc("instance_get_uuid", ClientPort(opts.vm_name[1]), ok))
         /\ IF ok THEN pc' = "reboot_put" /\ result' = result
            ELSE pc' = "done" /\ result' = Err("Anyhow", <<"failed to get instance UUID">>)
    /\ UNCHANGED <<diskVars, procVars, snapshotVars, serialVars, hyperVars, reads, opResult,
                   startVars>>

\* reboot: client.instance_state_put(id, Reboot)
RebootStatePut ==
    /\ pc = "reboot_put"
    /\ \E ok \in BOOLEAN :
         /\ rpcLog' = Append(rpcLog, Rpc("instance_state_put", ClientPort(opts.vm_name[1]), ok))
         /\ result' = IF ok THEN Ok ELSE Err("Anyhow", <<"failed to reboot machine">>)
    /\ pc' = "done"
    /\ UNCHANGED <<diskVars, procVars, snapshotVars, serialVars, hyperVars, reads, opResult,
                   startVars>>

\* -------------------------------------------------------------- hyperstart
DefaultPropolis == "propolis-server"

propolis_binary == IF opts.propolis = None THEN DefaultPropolis ELSE opts.propolis[1]

\* Uuid::from_str of a file's trimmed text: a canonical uuid, or an error.
parse_uuid(s) ==
    LET ok == Len(s) = 1 /\ \E i \in 1..Len(UuidStrings) : s[1] = UuidStrings[i]
    IN  [ok |-> ok, v |-> IF ok THEN s[1] ELSE ""]

\* hyperstart reading the first node's port file, whatever the node.
HandlePort_FirstNode(name) == parse_u32(trim_end(files[DeclaredNames[1]].port.text))

\* hyperstart making up an instance id instead of parsing the uuid file.
HandleId_Fresh(name) == [ok |-> TRUE, v |-> UuidStrings[Len(UuidStrings)]]

\* The port and instance id hyperstart reads for a node.
HandlePort(name) == parse_u32(trim_end(files[name].port.text))

HandleId(name) == parse_uuid(trim_end(files[name].uuid.text))

\* run going on to the next node after a failed start.
AfterHyperstart_KeepGoing(res) ==
    IF idx = 0 \/ idx >= NumNodes
    THEN [pc |-> "done", result |-> res, idx |-> idx, cur |-> cur]
    ELSE [pc |-> "hyperstart", result |-> result, idx |-> idx + 1,
          cur |-> DeclaredNames[idx + 1]]

\* Where control goes when hyperstart returns res to run: `?` on an error,
\* the next node of the --all loop, or the end of the command.
AfterHyperstart(res) ==
    IF res.kind = "Err" THEN [pc |-> "done", result |-> res, idx |-> idx, cur |-> cur]
    ELSE IF idx = 0 \/ idx >= NumNodes
    THEN [pc |-> "done", result |-> Ok, idx |-> idx, cur |-> cur]
    ELSE [pc |-> "hyperstart", result |-> result, idx |-> idx + 1,
          cur |-> DeclaredNames[idx + 1]]

\* run treating a missing name as --all.
RunHyperstart_AllByDefault ==
    /\ pc = "run"
    /\ opts.subcmd = "hyperstart"
    /\ IF opts.all \/ opts.vm_name = None
       THEN pc' = "hyperstart" /\ idx' = 1 /\ cur' = DeclaredNames[1] /\ result' = result
       ELSE pc' = "hyperstart" /\ idx' = 0 /\ cur' = opts.vm_name[1] /\ result' = result
    /\ UNCHANGED <<diskVars, procVars, snapshotVars, serialVars, kills, destroys, warns,
                   stopLog, logVars, startVars>>

RunHyperstart ==
    /\ pc = "run"
    /\ opts.subcmd = "hyperstart"
    /\ IF opts.all
       THEN pc' = "hyperstart" /\ idx' = 1 /\ cur' = DeclaredNames[1] /\ result' = result
       ELSE IF opts.vm_name = None
       THEN /\ pc' = "done"
            /\ result' = Err("Cli", <<"vm name required unless --all flag is used">>)
            /\ UNCHANGED <<idx, cur>>
       ELSE pc' = "hyperstart" /\ idx' = 0 /\ cur' = opts.vm_name[1] /\ result' = result
    /\ UNCHANGED <<diskVars, procVars, snapshotVars, serialVars, kills, destroys, warns,
                   stopLog, logVars, startVars>>

\* hyperstart: read the topology and look the node up.
HyperstartFindNode ==
    /\ pc = "hyperstart"
    /\ startLog' = Append(startLog, cur)
    /\ reads' = Append(reads, Read("", "topology"))
    /\ LET res == IF topology.state = "absent" THEN Err("Io", <<>>)
                  ELSE IF topology.state = "corrupt" THEN Err("Ron", <<>>)
                  ELSE IF find_node(topology.d, cur) = 0 THEN Err("NotFound", <<cur>>)
                  ELSE Ok
       IN  IF res = Ok
           THEN pc' = "hyperstart_files" /\ UNCHANGED <<result, idx, cur>>
           ELSE /\ pc' = AfterHyperstart(res).pc
                /\ result' = AfterHyperstart(res).result
                /\ idx' = AfterHyperstart(res).idx
                /\ cur' = AfterHyperstart(res).cur
    /\ UNCHANGED <<diskVars, procVars, snapshotVars, serialVars, kills, destroys, warns,
                   stopLog, rpcLog, opResult, launches, running, nextPid>>

\* hyperstart: read the port file as a u32, then the uuid file as a Uuid.
HyperstartHandles ==
    /\ pc = "hyperstart_files"
    /\ LET p == files[cur].port
           u == files[cur].uuid
           portOk == p.present /\ HandlePort(cur).ok
           res == IF ~p.present THEN Err("Io", <<>>)
                  ELSE IF ~HandlePort(cur).ok THEN Err("ParseInt", <<>>)
                  ELSE IF ~u.present THEN Err("Io", <<>>)
                  ELSE IF ~HandleId(cur).ok THEN Err("Uuid", <<>>)
                  ELSE Ok
       IN  /\ reads' = IF portOk
                       THEN reads \o <<Read(cur, "port"), Read(cur, "uuid")>>
                       ELSE Append(reads, Read(cur, "port"))
           /\ IF res = Ok
              THEN pc' = "launch_vm" /\ UNCHANGED <<result, idx, cur>>
              ELSE /\ pc' = AfterHyperstart(res).pc
                   /\ result' = AfterHyperstart(res).result
                   /\ idx' = AfterHyperstart(res).idx
                   /\ cur' = AfterHyperstart(res).cur
    /\ UNCHANGED <<diskVars, procVars, snapshotVars, serialVars, kills, destroys, warns,
                   stopLog, rpcLog, opResult, startVars>>

\* A process id as the text of a pid file.
PidDigits(p) == <<DigitChar(p \div 10), DigitChar(p % 10)>>

\* A backend process on the host, listening on its control port.
Backend(node, pid, port) == [node |-> node, pid |-> pid, port |-> port]

Launch(node, binary, port, id, ok) ==
    [node |-> node, binary |-> binary, port |-> port, id |-> id, ok |-> ok]

\* crate::launch_vm(&log, &propolis_binary, port, &id, node): spawn the
\* backend on the port, persist its pid; an error if the spawn fails.
launch_vm ==
    /\ pc = "launch_vm"
    /\ LET node == topology.d.nodes[find_node(topology.d, cur)]
           port == HandlePort(cur).v
           id == HandleId(cur).v
       IN  \E ok \in BOOLEAN :
             /\ launches' = Append(launches, Launch(node, propolis_binary, port, id, ok))
             /\ IF ok
                THEN /\ running' = running \cup {Backend(node.name, nextPid, port)}
                     /\ files' = [files EXCEPT ![node.name].pid = File(PidDigits(nextPid))]
                     /\ nextPid' = nextPid + 1
                ELSE UNCHANGED <<running, files, nextPid>>
             /\ LET res == IF ok THEN Ok ELSE Err("Spawn", <<>>)
                IN  /\ pc' = AfterHyperstart(res).pc
                    /\ result' = AfterHyperstart(res).result
                    /\ idx' = AfterHyperstart(res).idx
                    /\ cur' = AfterHyperstart(res).cur
    /\ UNCHANGED <<topology, procVars, snapshotVars, serialVars, kills, destroys, warns,
                   stopLog, logVars, startLog>>

\* ------------------------------------------------------------- invocations
OptsWith(sub, name, snap, all, propolis) ==
    [subcmd |-> sub, vm_name |-> name, snapshot_name |-> snap, all |-> all,
     propolis |-> propolis]

Opts(sub, name, snap, all) == OptsWith(sub, name, snap, all, None)

SnapshotOpts == {Opts("snapshot", Some(n), s, FALSE) : n \in TypedNames, s \in SnapshotNames}

SerialOpts == {Opts("serial", Some(n), "", FALSE) : n \in TypedNames}

HyperstopOpts ==
    {Opts("hyperstop", Some(n), "", FALSE) : n \in TypedNames}
    \cup {Opts("hyperstop", None, "", FALSE), Opts("hyperstop", None, "", TRUE)}

HyperstartOpts ==
    {OptsWith("hyperstart", v, "", FALSE, b) :
       v \in {Some(n) : n \in TypedNames} \cup {None}, b \in {None, Some("/opt/propolis")}}
    \cup {OptsWith("hyperstart", None, "", TRUE, b) : b \in {None, Some("/opt/propolis")}}

RebootOpts == {Opts("reboot", Some(n), "", FALSE) : n \in TypedNames}

WrapperOpts ==
    {Opts(sub, None, "", FALSE) : sub \in {"launch", "destroy", "info", "netcreate", "netdestroy"}}

\* The stop/start lifecycle, with the default backend binary.
LifecycleOpts == HyperstopOpts \cup {o \in HyperstartOpts : o.propolis = None}

NameIndex(n) == IF \E i \in 1..NumNodes : DeclaredNames[i] = n
                THEN CHOOSE i \in 1..NumNodes : DeclaredNames[i] = n
                ELSE 0

LaunchedFiles(n) ==
    [pid  |-> File(PidText(NameIndex(n))),
     uuid |-> File(UuidText(NameIndex(n))),
     port |-> File(PortText(NameIndex(n)))]

NoFiles == [pid |-> Absent, uuid |-> Absent, port |-> Absent]

\* State files of a launched deployment; nothing exists for other names.
DefaultFiles == [n \in TypedNames |-> IF NameIndex(n) = 0 THEN NoFiles ELSE LaunchedFiles(n)]

PidFiles(n) == {Absent, File(Garbage), LaunchedFiles(n).pid}

UuidFiles(n) == {Absent, LaunchedFiles(n).uuid}

PortFiles(n) ==
    {Absent, File(Garbage), File(<<"7", "0", "0", "0", "0">>), LaunchedFiles(n).port,
     File(LaunchedFiles(n).port.text \o <<"\n">>)}

\* The backends launch left running: one per node whose pid and port files
\* both hold a number.
RunningAtStart(f) ==
    {Backend(n, parse_i32(trim_end(f[n].pid.text)).v, parse_u32(trim_end(f[n].port.text)).v) :
       n \in {m \in DOMAIN f : /\ f[m].pid.present /\ f[m].port.present
                               /\ parse_i32(trim_end(f[m].pid.text)).ok
                               /\ parse_u32(trim_end(f[m].port.text)).ok}}

\* The operating system hands out process ids it has not used before.
FirstNewPid == 51

NoPrev == [opts |-> Opts("", None, "", FALSE), result |-> NoResult]

\* A process starts: nothing logged, no guard, no result.
FreshProcess ==
    /\ pc = "run"
    /\ result = NoResult
    /\ zfsLog = <<>>
    /\ guard = <<>>
    /\ tcLog = <<>>
    /\ ret = NoResult
    /\ ev = NoEvent
    /\ events = 0
    /\ wsLog = <<>>
    /\ stdoutBuf = <<>>
    /\ flushed = 0
    /\ idx = 0
    /\ cur = ""
    /\ kills = <<>>
    /\ destroys = <<>>
    /\ warns = <<>>
    /\ stopLog = <<>>
    /\ reads = <<>>
    /\ rpcLog = <<>>
    /\ opResult = NoResult
    /\ launches = <<>>
    /\ startLog = <<>>

FirstInvocation ==
    /\ FreshProcess
    /\ invocation = 1
    /\ prev = NoPrev
    /\ files0 = files
    /\ termios0 = termios
    /\ running = RunningAtStart(files)
    /\ nextPid = FirstNewPid

NotTty == CHOOSE t \in TerminalModes : ~IsRaw(t) /\ "CLOCAL" \notin t

SnapshotInit ==
    /\ opts \in SnapshotOpts
    /\ topology \in {TopologyAbsent, TopologyCorrupt, TopologyOk}
    /\ files = DefaultFiles
    /\ termios \in TerminalModes
    /\ FirstInvocation

SerialInit ==
    /\ opts \in SerialOpts
    /\ topology = TopologyOk
    /\ \E f \in PortFiles(opts.vm_name[1]) :
         files = [DefaultFiles EXCEPT ![opts.vm_name[1]].port = f]
    /\ termios \in TerminalModes
    /\ FirstInvocation

HyperInit ==
    /\ opts \in HyperstopOpts
    /\ topology = TopologyOk
    /\ \E p \in [1..NumNodes -> {"absent", "garbage", "pid"}], u \in [1..NumNodes -> BOOLEAN] :
         files = [n \in TypedNames |->
                    IF NameIndex(n) = 0 THEN NoFiles
                    ELSE [LaunchedFiles(n) EXCEPT
                            !.pid = CASE p[NameIndex(n)] = "absent" -> Absent
                                      [] p[NameIndex(n)] = "garbage" -> File(Garbage)
                                      [] OTHER -> @,
                            !.uuid = IF u[NameIndex(n)] THEN @ ELSE Absent]]
    /\ termios = NotTty
    /\ FirstInvocation

\* A topology persisted by a launch of a program that did not declare node i.
TopologyStale(i) ==
    [state |-> "ok",
     d |-> [Deployment EXCEPT
              !.nodes = SubSeq(@, 1, i - 1) \o SubSeq(@, i + 1, Len(@))]]

RebootInit ==
    /\ opts \in RebootOpts
    /\ topology = TopologyOk
    /\ \E f \in PortFiles(opts.vm_name[1]) :
         files = [DefaultFiles EXCEPT ![opts.vm_name[1]].port = f]
    /\ termios = NotTty
    /\ FirstInvocation

WrapperInit ==
    /\ opts \in WrapperOpts
    /\ topology \in {TopologyAbsent, TopologyOk}
    /\ files = DefaultFiles
    /\ termios = NotTty
    /\ FirstInvocation

\* Stopped nodes whose port and uuid files may each be missing or damaged.
HyperstartInit ==
    /\ opts \in HyperstartOpts
    /\ topology \in {TopologyAbsent, TopologyCorrupt, TopologyOk}
                    \cup {TopologyStale(i) : i \in 1..NumNodes}
    /\ \E p \in [1..NumNodes -> {"absent", "garbage", "wide", "port"}],
          u \in [1..NumNodes -> {"absent", "garbage", "uuid"}] :
         files = [n \in TypedNames |->
                    IF NameIndex(n) = 0 THEN NoFiles
                    ELSE [pid  |-> Absent,
                          port |-> CASE p[NameIndex(n)] = "absent" -> Absent
                                     [] p[NameIndex(n)] = "garbage" -> File(Garbage)
                                     [] p[NameIndex(n)] = "wide" ->
                                          File(<<"7", "0", "0", "0", DigitChar(NameIndex(n))>>)
                                     [] OTHER -> LaunchedFiles(n).port,
                          uuid |-> CASE u[NameIndex(n)] = "absent" -> Absent
                                     [] u[NameIndex(n)] = "garbage" -> File(Garbage)
                                     [] OTHER -> LaunchedFiles(n).uuid]]
    /\ termios = NotTty
    /\ FirstInvocation

\* A launched deployment, some of whose nodes were stopped already.
LifecycleInit ==
    /\ opts \in LifecycleOpts
    /\ topology = TopologyOk
    /\ \E p \in [1..NumNodes -> BOOLEAN], u \in [1..NumNodes -> BOOLEAN] :
         files = [n \in TypedNames |->
                    IF NameIndex(n) = 0 THEN NoFiles
                    ELSE [LaunchedFiles(n) EXCEPT
                            !.pid = IF p[NameIndex(n)] THEN @ ELSE Absent,
                            !.uuid = IF u[NameIndex(n)] THEN @ ELSE Absent]]
    /\ termios = NotTty
    /\ FirstInvocation

\* The command has finished; the user runs the tool again on the same disk.
Reinvoke(optSet) ==
    /\ pc = "done"
    /\ invocation < MaxInvocations
    /\ invocation' = invocation + 1
    /\ prev' = [opts |-> opts, result |-> result]
    /\ opts' \in optSet
    /\ files0' = files
    /\ termios0' = termios
    /\ pc' = "run"
    /\ result' = NoResult
    /\ zfsLog' = <<>>
    /\ guard' = <<>>
    /\ tcLog' = <<>>
    /\ ret' = NoResult
    /\ ev' = NoEvent
    /\ events' = 0
    /\ wsLog' = <<>>
    /\ stdoutBuf' = <<>>
    /\ flushed' = 0
    /\ idx' = 0
    /\ cur' = ""
    /\ kills' = <<>>
    /\ destroys' = <<>>
    /\ warns' = <<>>
    /\ stopLog' = <<>>
    /\ reads' = <<>>
    /\ rpcLog' = <<>>
    /\ opResult' = NoResult
    /\ launches' = <<>>
    /\ startLog' = <<>>
    /\ UNCHANGED <<diskVars, termios, running, nextPid>>

HyperReinvoke == Reinvoke(HyperstopOpts)

SnapshotNext == RunSnapshot \/ SnapshotFindNode \/ \E k \in 1..4 : ZfsCommand(k)

SerialNext ==
    \/ RunSerial
    \/ console
    \/ SerialGetUuid
    \/ SerialConnect
    \/ stdio_guard
    \/ Select
    \/ HandleStdin
    \/ HandleWs
    \/ DropGuard

HyperstopNext == RunHyperstop \/ HyperstopPid \/ HyperstopUuid

HyperNext == HyperstopNext \/ HyperReinvoke

HyperstartNext == RunHyperstart \/ HyperstartFindNode \/ HyperstartHandles \/ launch_vm

RebootNext == RunReboot \/ reboot \/ RebootGetUuid \/ RebootStatePut

WrapperNext == RunLaunch \/ RunDestroy \/ RunInfo \/ RunNetcreate \/ RunNetdestroy

LifecycleReinvoke == Reinvoke(LifecycleOpts)

\* One invocation of run, whatever the subcommand.
RunInit ==
    \/ SnapshotInit
    \/ SerialInit
    \/ HyperInit
    \/ HyperstartInit
    \/ RebootInit
    \/ WrapperInit

RunNext ==
    \/ SnapshotNext
    \/ SerialNext
    \/ HyperstopNext
    \/ HyperstartNext
    \/ RebootNext
    \/ WrapperNext

LifecycleNext == HyperstopNext \/ HyperstartNext \/ LifecycleReinvoke

SpecSnapshot == SnapshotInit /\ [][SnapshotNext]_vars

SpecSerial == SerialInit /\ [][SerialNext]_vars

SpecHyper == HyperInit /\ [][HyperNext]_vars

SpecRun == RunInit /\ [][RunNext]_vars

SpecLifecycle == LifecycleInit /\ [][LifecycleNext]_vars

Init == RunInit \/ LifecycleInit

Next == RunNext \/ HyperReinvoke \/ LifecycleReinvoke

Spec == Init /\ [][Next]_vars

TypeOK ==
    /\ pc \in {"run", "snapshot", "zfs1", "zfs2", "zfs3", "zfs4", "console", "get_uuid",
               "connect", "stdio_guard", "select", "handle", "drop", "hyperstop",
               "hyperstop_uuid", "reboot", "reboot_uuid", "reboot_put", "hyperstart",
               "hyperstart_files", "launch_vm", "done"}
    /\ \A r \in running : r.pid < nextPid
    /\ result.kind \in {"None", "Ok", "Err", "Panic"}
    /\ (pc = "done") = (result.kind /= "None")
    /\ flushed <= Len(stdoutBuf)
    /\ Len(guard) <= 1

\* ==================================================================== claims
PipelineOps == <<"snapshot", "clone", "promote", "snapshot">>

ReportedFailure(e) == e.out.spawned /\ ~e.out.success

\* C1: the snapshot pipeline is fail-fast without rollback. If the k-th zfs
\* command reports failure, exactly the commands 1..k were invoked, in the
\* order snapshot, clone, promote, snapshot, nothing follows, and snapshot
\* returns a Zfs error carrying that command's diagnostic output; snapshot
\* returns success only after all four commands ran in order and succeeded.
C1_FailFastZfsError ==
    /\ \A k \in 1..Len(zfsLog) :
         ReportedFailure(zfsLog[k]) =>
           /\ Len(zfsLog) = k
           /\ \A j \in 1..k : zfsLog[j].cmd.op = PipelineOps[j]
           /\ pc = "done"
           /\ result.kind = "Err"
           /\ result.err = "Zfs"
           /\ result.payload = zfsLog[k].out.stderr
    /\ (opts.subcmd = "snapshot" /\ result.kind = "Ok") =>
           /\ Len(zfsLog) = 4
           /\ \A j \in 1..4 : zfsLog[j].cmd.op = PipelineOps[j] /\ zfsLog[j].out.success

\* C2: step 4 snapshots the promoted clone: the fourth command names the
\* volume derived from new_image_name, which is the target of the clone and
\* of the promote, under the tag of step 1, and not the node's own volume.
C2_Step4SnapshotsPromotedClone ==
    Len(zfsLog) >= 4 =>
        LET fourth == zfsLog[4].cmd.args[1]
        IN  /\ fourth.vol = dest(opts)
            /\ fourth.vol = zfsLog[2].cmd.args[2].vol
            /\ fourth.vol = zfsLog[3].cmd.args[1].vol
            /\ fourth.tag = zfsLog[1].cmd.args[1].tag
            /\ fourth.vol /= zfsLog[1].cmd.args[1].vol

EnteredRaw == \E i \in 1..Len(tcLog) : tcLog[i].act = "TCSAFLUSH" /\ tcLog[i].ok

Restores == {i \in 1..Len(tcLog) : tcLog[i].act = "TCSADRAIN"}

\* C3 as stated: once the terminal was switched to raw mode, every finished
\* serial operation has restored the terminal mode exactly once and has
\* left the terminal in its pre-session mode, never in raw mode.
C3_NeverLeftRaw ==
    (pc = "done" /\ EnteredRaw) => Cardinality(Restores) = 1 /\ termios = termios0

\* C3 as amended: once the terminal was switched to raw mode, the restoring
\* call is made exactly once on every exit path from Active, with the
\* pre-session mode, and not before; the terminal is back in its
\* pre-session mode whenever that call succeeded, and it is left in raw mode
\* only when that call itself failed, in which case serial panicked.
C3_RestoreAttemptedOnce ==
    /\ (EnteredRaw /\ pc /= "done") =>
           /\ Restores = {}
           /\ termios = cfmakeraw(termios0)
           /\ guard = <<termios0>>
    /\ (EnteredRaw /\ pc = "done") =>
           /\ Cardinality(Restores) = 1
           /\ \A i \in Restores :
                /\ i = Len(tcLog)
                /\ tcLog[i].mode = termios0
                /\ tcLog[i].ok => termios = termios0 /\ result = ret
                /\ ~tcLog[i].ok => termios = cfmakeraw(termios0) /\ result = Panic

\* An I/O error ended a session on a terminal that was not raw before, and
\* the terminal is back in its pre-session mode.
C3_Witness ==
    /\ pc = "done"
    /\ EnteredRaw
    /\ result.kind = "Err"
    /\ ~IsRaw(termios0)
    /\ termios = termios0

\* What the stdin arm does with a byte it read.
C4_StdinStep ==
    (pc = "handle" /\ ev.src = "stdin" /\ ev.kind = "Ok") =>
        IF ev.data[1] = QuitByte
        THEN pc' = "drop" /\ ret' = Ok /\ wsLog' = wsLog
        ELSE /\ Len(wsLog') = Len(wsLog) + 1
             /\ SubSeq(wsLog', 1, Len(wsLog)) = wsLog
             /\ wsLog'[Len(wsLog')].frame = [type |-> "Binary", data |-> ev.data]

\* No frame handed to the remote session holds the sentinel byte.
C4_SentinelNeverSent ==
    \A i \in 1..Len(wsLog) :
        QuitByte \notin {wsLog[i].frame.data[j] : j \in 1..Len(wsLog[i].frame.data)}

\* C4: when the byte read from standard input is the quit sentinel, the very
\* next step leaves Active with success and sends nothing; any other byte is
\* handed to the remote session as one binary frame holding exactly that
\* byte; so no frame ever sent holds the sentinel byte.
C4_QuitSentinel == [][C4_StdinStep]_vars /\ []C4_SentinelNeverSent

\* A byte was forwarded, then the sentinel closed the session.
C4_Witness ==
    /\ pc = "drop"
    /\ ev = Event("stdin", "Ok", <<QuitByte>>)
    /\ ret = Ok
    /\ wsLog = <<[frame |-> [type |-> "Binary", data |-> <<97>>], ok |-> TRUE]>>

\* What the websocket arm does with a message it received.
C5_WsStep ==
    (pc = "handle" /\ ev.src = "ws") =>
        /\ (ev.kind = "Binary" /\ pc' = "select") =>
               stdoutBuf' = stdoutBuf \o ev.data /\ flushed' = Len(stdoutBuf')
        /\ ev.kind = "Binary" => pc' \in {"select", "drop"} /\ (pc' = "drop" => ret'.kind = "Err")
        /\ ev.kind \in {"Close", "None"} => pc' = "drop" /\ ret' = Ok
        /\ ev.kind \in {"Text", "Ping", "Pong"} =>
               pc' = "select" /\ stdoutBuf' = stdoutBuf /\ flushed' = flushed /\ wsLog' = wsLog

\* Whenever the proxy waits, everything written has been flushed.
C5_FlushedBeforeWait == pc = "select" => flushed = Len(stdoutBuf)

\* C5: a binary message is written verbatim to standard output and flushed
\* before the next wait; a close message or the end of the stream closes the
\* session; text, ping and pong messages write nothing, send nothing and
\* leave the proxy waiting.
C5_RemoteMessages == [][C5_WsStep]_vars /\ []C5_FlushedBeforeWait

\* Two binary messages, one of them holding the byte 0x11, were printed and
\* flushed, and the proxy waits again.
C5_Witness ==
    /\ pc = "select"
    /\ ev.kind = "Binary"
    /\ stdoutBuf = <<104, QuitByte, 105>>
    /\ flushed = 3

\* C6: when restoring the terminal mode fails at session exit, the caller
\* still gets the outcome serial was returning (success after quit or remote
\* close, or the original I/O error).
C6_RestoreFailureDoesNotMask ==
    (pc = "done" /\ ret.kind /= "None" /\ ~tcLog[Len(tcLog)].ok) => result = ret

SingleStop == opts.subcmd = "hyperstop" /\ ~opts.all /\ opts.vm_name /= None

\* C7: hyperstop is idempotent: whatever pid and uuid files exist, the
\* second of two hyperstop calls in a row for the same node returns no error.
C7_StopIdempotent ==
    (pc = "done" /\ invocation >= 2 /\ SingleStop /\ prev.opts = opts) => result.kind = "Ok"

HasWarning(what) == \E i \in 1..Len(warns) : warns[i].what = what

\* C8: hyperstop is best-effort: a failed signal or a failed removal of the
\* pid file is logged as a warning, the uuid half is still carried out and
\* hyperstop returns success; a failed destroy is reported and hyperstop
\* returns success.
C8_StopBestEffort ==
    (pc = "done" /\ SingleStop) =>
        /\ result.kind = "Ok"
        /\ \A i \in 1..Len(kills) :
             (~kills[i].ok \/ ~kills[i].removed) => Len(warns) > 0
        /\ files0[opts.vm_name[1]].uuid.present => Len(destroys) = 1
        /\ \A i \in 1..Len(destroys) :
             destroys[i].out /= "Success" => HasWarning("delete bhyve vm")

\* C9: the two halves of hyperstop are independent: without a pid file no
\* signal is sent and the uuid half is still carried out (destroy is invoked
\* when the uuid file is present); without a uuid file destroy is not
\* invoked; hyperstop returns success in both cases.
C9_HalvesIndependent ==
    (pc = "done" /\ SingleStop) =>
        LET f == files0[opts.vm_name[1]]
        IN  /\ ~f.pid.present =>
                 /\ kills = <<>>
                 /\ f.uuid.present => Len(destroys) = 1
                 /\ result.kind = "Ok"
            /\ ~f.uuid.present => destroys = <<>> /\ result.kind = "Ok"

\* C10: hyperstop --all invokes hyperstop once for every node of the
\* Deployment, in declaration order.
C10_StopAllEveryNode ==
    (pc = "done" /\ opts.subcmd = "hyperstop" /\ opts.all) => stopLog = DeclaredNames

\* C11: for every subcommand, if the underlying operation fails then run
\* returns an error, and run returns Ok only when the selected operation
\* succeeded.
C11_OperationFailureIsReturned ==
    pc = "done" =>
      /\ opResult.kind = "Err" => result.kind = "Err"
      /\ result.kind = "Ok" => opResult.kind \in {"None", "Ok"}

UsageError == Err("Cli", <<"vm name required unless --all flag is used">>)

NeitherNameNorAll ==
    opts.subcmd \in {"hyperstop", "hyperstart"} /\ opts.vm_name = None /\ ~opts.all

\* C12: hyperstop and hyperstart invoked with neither a node name nor --all
\* fail with a usage error, and then no state file is read or removed, no
\* signal is sent, no destroy call is made and no backend is spawned.
C12_UsageErrorWithoutEffect ==
    NeitherNameNorAll =>
      /\ pc \in {"run", "done"}
      /\ pc = "done" => result = UsageError
      /\ reads = <<>>
      /\ files = files0
      /\ kills = <<>>
      /\ destroys = <<>>
      /\ launches = <<>>
      /\ running = RunningAtStart(files0)

C12_Witness ==
    /\ NeitherNameNorAll
    /\ opts.subcmd = "hyperstart"
    /\ \E n \in DOMAIN files : files[n].port.present /\ files[n].uuid.present
    /\ pc = "done"
    /\ result = UsageError

PortIsU16(name) ==
    files0[name].port.present /\ parse_u16(trim_end(files0[name].port.text)).ok

\* C13: serial, reboot and hyperstart fail with an error, before contacting
\* or spawning any backend, when the node's port file does not parse as an
\* unsigned 16-bit integer; a value greater than 65535 is rejected by all
\* three.
C13_PortMustBeU16 ==
    /\ (opts.subcmd \in {"serial", "reboot"} /\ ~PortIsU16(opts.vm_name[1])) =>
         /\ rpcLog = <<>>
         /\ pc = "done" => result.kind = "Err"
    /\ opts.subcmd = "hyperstart" =>
         /\ \A i \in 1..Len(launches) : PortIsU16(launches[i].node.name)
         /\ (pc = "done" /\ \E i \in 1..Len(startLog) : ~PortIsU16(startLog[i])) =>
              result.kind = "Err"

\* C14: starting from pairwise distinct persisted control ports, after any
\* sequence of hyperstop and hyperstart commands (single-node or --all) the
\* control ports handed to concurrently running backends of different
\* nodes are pairwise distinct.
C14_RunningPortsDistinct ==
    \A a \in running, b \in running : a.node /= b.node => a.port /= b.port

\* A backend started by hyperstart after a hyperstop, next to the backend
\* of another node.
C14_Witness ==
    /\ prev.opts.subcmd = "hyperstop"
    /\ opts.subcmd = "hyperstart"
    /\ pc = "done"
    /\ \E a \in running, b \in running :
         a.node /= b.node /\ a.pid >= FirstNewPid /\ b.pid < FirstNewPid

Persisted(n) ==
    \E i \in 1..Len(topology.d.nodes) : topology.d.nodes[i].name = n

HandleReads(n) == {i \in 1..Len(reads) : reads[i].name = n}

\* C15: node lookup fails with NotFound(name) when no node of the persisted
\* Deployment has that name and otherwise yields the node with that name;
\* snapshot or hyperstart given a name that is not in the persisted
\* Deployment returns NotFound(name) before any external effect: no storage
\* command, no runtime-handle file read, no backend spawned.
C15_UnknownNodeNotFound ==
    /\ \A n \in TypedNames :
         IF Persisted(n)
         THEN /\ find_node(topology.d, n) \in 1..Len(topology.d.nodes)
              /\ topology.d.nodes[find_node(topology.d, n)].name = n
         ELSE find_node(topology.d, n) = 0
    /\ \A i \in 1..Len(launches) : launches[i].node.name = startLog[i]
    /\ (opts.subcmd = "snapshot" /\ topology.state = "ok" /\ ~Persisted(opts.vm_name[1])) =>
         /\ zfsLog = <<>>
         /\ HandleReads(opts.vm_name[1]) = {}
         /\ pc = "done" => result = Err("NotFound", opts.vm_name)
    /\ (opts.subcmd = "hyperstart" /\ topology.state = "ok") =>
         \A n \in TypedNames :
           ~Persisted(n) =>
             /\ HandleReads(n) = {}
             /\ \A i \in 1..Len(launches) : launches[i].node.name /= n
             /\ \A r \in running : r.node = n => r \in RunningAtStart(files0)
             /\ files[n] = files0[n]
             /\ (pc = "done" /\ \E i \in 1..Len(startLog) : startLog[i] = n) =>
                  result = Err("NotFound", <<n>>)

\* hyperstart of a declared node whose handle files exist, but which the
\* persisted Deployment does not list.
C15_Witness ==
    /\ opts.subcmd = "hyperstart"
    /\ ~opts.all
    /\ opts.vm_name /= None
    /\ topology.state = "ok"
    /\ ~Persisted(opts.vm_name[1])
    /\ files[opts.vm_name[1]].port.present
    /\ files[opts.vm_name[1]].uuid.present
    /\ pc = "done"
    /\ result = Err("NotFound", opts.vm_name)

Connecting == pc \in {"console", "get_uuid", "connect", "stdio_guard"}

ProxyActive == pc \in {"select", "handle", "drop"}

ConnectingFailures ==
    {Err("Io", <<>>), Err("ParseInt", <<>>), Err("Anyhow", <<"failed to get instance UUID">>),
     Err("Anyhow", <<"failed to create serial websocket stream">>)}

\* serial returned before its session was open.
ConnectingFailed == pc = "done" /\ (Len(rpcLog) < 2 \/ ~rpcLog[2].ok)

\* The steps of Connecting, in order, as far as they were taken.
ConnectingOrdered ==
    /\ rpcLog /= <<>> =>
         /\ reads = <<Read(opts.vm_name[1], "port")>>
         /\ files[opts.vm_name[1]].port.present
         /\ parse_u16(trim_end(files[opts.vm_name[1]].port.text)).ok
         /\ rpcLog[1].call = "instance_get_uuid"
    /\ Len(rpcLog) >= 2 =>
         /\ rpcLog[1].ok
         /\ rpcLog[2].call = "connect_async"
         /\ Len(rpcLog) = 2
    /\ (tcLog /= <<>> \/ guard /= <<>>) => Len(rpcLog) = 2 /\ rpcLog[2].ok
    /\ (Connecting \/ ConnectingFailed) =>
         /\ tcLog = <<>>
         /\ guard = <<>>
         /\ termios = termios0
    /\ ConnectingFailed => result \in ConnectingFailures

\* C16 as stated: Connecting reads the port file, resolves the instance id,
\* opens the session and only then captures the terminal mode and switches
\* to raw; the terminal is in a mode other than its pre-session mode only
\* while the proxy is Active, and a failure during Connecting returns an
\* error with the terminal mode never changed.
C16_RawOnlyWhileActive ==
    /\ ConnectingOrdered
    /\ termios /= termios0 => ProxyActive

\* C16 as amended: the same order and the same untouched terminal on every
\* Connecting failure; the terminal is in a mode other than its pre-session
\* mode only while the proxy is Active, or after the proxy left Active and
\* the call restoring the mode failed, in which case serial panicked.
C16_RawOnlyAfterConnecting ==
    /\ ConnectingOrdered
    /\ termios /= termios0 =>
         \/ ProxyActive
         \/ /\ pc = "done"
            /\ result = Panic
            /\ tcLog[Len(tcLog)] = TcCall("TCSADRAIN", termios0, FALSE)

\* The session could not be opened: an error, and the terminal untouched.
C16_Witness ==
    /\ pc = "done"
    /\ result = Err("Anyhow", <<"failed to create serial websocket stream">>)
    /\ ConnectingFailed
    /\ Len(rpcLog) = 2
    /\ ~IsRaw(termios)
    /\ tcLog = <<>>

\* Everything hyperstart needs of node n is on disk and well formed.
Startable(n) ==
    /\ topology.state = "ok"
    /\ Persisted(n)
    /\ files0[n].port.present
    /\ parse_u32(trim_end(files0[n].port.text)).ok
    /\ files0[n].uuid.present
    /\ parse_uuid(trim_end(files0[n].uuid.text)).ok

\* C17: hyperstart passes to the backend launch exactly the port and the
\* instance id read from the node's port and uuid files; it never launches
\* unless the persisted topology was loaded, the node was found in it and
\* both files were present and parsed, and otherwise returns an error with
\* no process spawned.
C17_LaunchUsesPersistedHandle ==
    opts.subcmd = "hyperstart" =>
      /\ \A i \in 1..Len(launches) :
           LET n == launches[i].node.name
           IN  /\ n = startLog[i]
               /\ Startable(n)
               /\ launches[i].node \in {topology.d.nodes[j] : j \in 1..Len(topology.d.nodes)}
               /\ launches[i].port = parse_u32(trim_end(files0[n].port.text)).v
               /\ launches[i].id = parse_uuid(trim_end(files0[n].uuid.text)).v
               /\ launches[i].binary =
                    (IF opts.propolis = None THEN "propolis-server" ELSE opts.propolis[1])
      /\ \A r \in running \ RunningAtStart(files0) :
           \E i \in 1..Len(launches) :
             launches[i].ok /\ launches[i].node.name = r.node /\ launches[i].port = r.port
      /\ \A i \in 1..Len(startLog) :
           ~Startable(startLog[i]) =>
             /\ Len(launches) < i
             /\ pc = "done" => result.kind = "Err"

\* A stopped node was started on its persisted port with its persisted id.
C17_Witness ==
    /\ opts.subcmd = "hyperstart"
    /\ opts.vm_name /= None
    /\ opts.propolis /= None
    /\ pc = "done"
    /\ result = Ok
    /\ Len(launches) = 1
    /\ launches[1].ok
    /\ launches[1].port = PortText(1)
    /\ launches[1].id = UuidStrings[1]
    /\ \E r \in running : r.node = opts.vm_name[1] /\ r.port = PortText(1)

\* The i-th start of this invocation returned an error.
StartFailed(i) ==
    \/ ~Startable(startLog[i])
    \/ i <= Len(launches) /\ ~launches[i].ok

\* C18: hyperstart --all processes the nodes in declaration order and
\* short-circuits at the first node whose start returns an error (node not
\* found in the persisted topology included): every node before it has had
\* its backend launch invoked, that error is returned by run, and no start
\* is attempted for any later node.
C18_StartAllShortCircuits ==
    (opts.subcmd = "hyperstart" /\ opts.all) =>
      /\ Len(startLog) <= NumNodes
      /\ \A i \in 1..Len(startLog) :
           /\ startLog[i] = DeclaredNames[i]
           /\ StartFailed(i) => Len(startLog) = i
           /\ i < Len(startLog) =>
                launches[i].node.name = DeclaredNames[i] /\ launches[i].ok
      /\ Len(launches) <= Len(startLog)
      /\ pc = "done" =>
           IF StartFailed(Len(startLog))
           THEN /\ result.kind = "Err"
                /\ (topology.state = "ok" /\ ~Persisted(startLog[Len(startLog)])) =>
                     result = Err("NotFound", <<startLog[Len(startLog)]>>)
                /\ Len(launches) = Len(startLog) => result = Err("Spawn", <<>>)
           ELSE /\ result = Ok
                /\ startLog = DeclaredNames
                /\ Len(launches) = NumNodes

\* The persisted topology lacks a node that is not the last one declared:
\* the nodes after it are startable and are not started.
C18_Witness ==
    /\ opts.subcmd = "hyperstart"
    /\ opts.all
    /\ pc = "done"
    /\ Len(startLog) < NumNodes
    /\ result = Err("NotFound", <<DeclaredNames[Len(startLog)]>>)
    /\ Len(launches) = Len(startLog) - 1
    /\ \A i \in (Len(startLog) + 1)..NumNodes : Startable(DeclaredNames[i])

HandleKept(f, g, n) == g[n].port = f[n].port /\ g[n].uuid = f[n].uuid

\* C19: hyperstop(name) changes at most the named node's pid file: its port
\* and uuid files, the persisted topology and every other node's handle
\* files are left unchanged, so a hyperstart of the same node right after
\* a hyperstop still finds the port and uuid it needs.
C19_StopChangesOnlyPidFile ==
    [][/\ pc \in {"hyperstop", "hyperstop_uuid"} =>
            /\ topology' = topology
            /\ \A n \in TypedNames :
                 /\ HandleKept(files, files', n)
                 /\ n /= cur => files'[n] = files[n]
       /\ (opts.subcmd = "hyperstop" /\ pc = "done" /\ opts'.subcmd = "hyperstart") =>
            \A n \in TypedNames : HandleKept(files0, files0', n)]_vars

\* A node was stopped, its pid file removed, and then started again on the
\* port and with the id that were persisted before the stop.
C19_Witness ==
    /\ invocation = 2
    /\ prev.opts.subcmd = "hyperstop"
    /\ prev.opts.vm_name /= None
    /\ prev.result = Ok
    /\ opts.subcmd = "hyperstart"
    /\ opts.vm_name = prev.opts.vm_name
    /\ ~files0[opts.vm_name[1]].pid.present
    /\ pc = "done"
    /\ result = Ok
    /\ Len(launches) = 1
    /\ launches[1].port = LaunchedFiles(opts.vm_name[1]).port.text
    /\ <<launches[1].id>> = LaunchedFiles(opts.vm_name[1]).uuid.text

\* The event the proxy is handling is one that ends the session.
ExitEvent ==
    \/ ev.src = "stdin" /\ ev.kind = "Ok" /\ ev.data[1] = QuitByte /\ ret' = Ok
    \/ ev.src = "stdin" /\ ev.kind = "Err" /\ ret'.kind = "Err"
    \/ /\ ev.src = "stdin" /\ ev.kind = "Ok" /\ ev.data[1] /= QuitByte
       /\ Len(wsLog') = Len(wsLog) + 1
       /\ ~wsLog'[Len(wsLog')].ok
       /\ ret'.kind = "Err"
    \/ ev.src = "ws" /\ ev.kind \in {"Close", "None"} /\ ret' = Ok
    \/ ev.src = "ws" /\ ev.kind = "Binary" /\ ret'.kind = "Err"
                     /\ flushed' < Len(stdoutBuf \o ev.data)

C20_ActiveStep ==
    /\ (pc = "handle" /\ ev.src = "ws" /\ ev.kind = "Err") =>
         /\ pc' = "select"
         /\ ret' = ret
         /\ result' = result
         /\ guard' = guard
         /\ termios' = termios
         /\ wsLog' = wsLog
         /\ stdoutBuf' = stdoutBuf
    /\ (pc \in {"select", "handle"} /\ pc' \notin {"select", "handle"}) =>
         /\ pc = "handle"
         /\ pc' = "drop"
         /\ ExitEvent

\* C20: while Active, an error yielded by the remote session's receive side
\* does not close the session and is not propagated: the proxy stays Active
\* and waits again; the only events that leave Active are the quit sentinel,
\* a remote close message, the remote end of stream, a stdin read error, a
\* send error and a stdout write or flush error.
C20_ReceiveErrorKeepsSession == [][C20_ActiveStep]_vars

\* The receive side yielded an error and the proxy waits again, still raw.
C20_Witness ==
    /\ pc = "select"
    /\ ev = Event("ws", "Err", <<>>)
    /\ ret = NoResult
    /\ guard /= <<>>
    /\ termios = cfmakeraw(termios0)

====
